---- MODULE Spec2Model ----
(***************************************************************************)
(* Model of snmputil.NewClient (client.go): profile validation, derivation *)
(* of the SNMPv3 security parameters, version dispatch and the hand-off to *)
(* the gosnmp engine.                                                      *)
(*                                                                         *)
(* Strings whose length the code tests (AuthUser, AuthPass, PrivPass) are  *)
(* sequences of characters; strings that are only compared or copied are   *)
(* TLA+ strings.  A pointer is a sequence of length 0 (nil) or 1.          *)
(***************************************************************************)
EXTENDS Integers, Sequences, FiniteSets, TLC

\* ---------------------------------------------------------------- bounds
MaxLen == 1
MaxWrap == 1

\* ------------------------------------------------------------- constants
defaultPort == 161

\* gosnmp.SnmpV3AuthProtocol; the zero value of the type is none of them
NoAuth == 1
MD5 == 2
SHA == 3
\* gosnmp.SnmpV3PrivProtocol
NoPriv == 1
DES == 2
AES == 3
\* gosnmp.SnmpV3MsgFlags
NoAuthNoPriv == 0
AuthNoPriv == 1
AuthPriv == 3
\* gosnmp.SnmpVersion
Version1 == 0
Version2c == 1
Version3 == 3
\* gosnmp.SnmpV3SecurityModel
UserSecurityModel == 3
\* time.Second, in nanoseconds
Second == 1000000000

authProto == ("NoAuth" :> NoAuth) @@ ("MD5" :> MD5) @@ ("SHA" :> SHA)
privacy == ("NoPriv" :> NoPriv) @@ ("DES" :> DES) @@ ("AES" :> AES)

NilErr == "nil"
ErrBadUser == "missing snmp v3 username"
ErrBadPassword == "missing snmp v3 user password"
ErrBadProtocol == "invalid snmp v3 auth protocol"
ErrLevel == "invalid snmp v3 security level"
ErrPrivacy == "missing snmp v3 privacy password"
ErrVersion == "invalid snmp version"
\* a transport error of the engine's Connect
ErrConnect == "connect failed"

\* ----------------------------------------------------------------- inputs
Strs == UNION {[1..n -> {"x"}] : n \in 0..MaxLen}
Ports == {k * 65536 + r : k \in (0 - 1)..MaxWrap, r \in {0, 161, 162}}
Hosts == {"h1", "h2"}
Communities == {"", "public"}
Versions == {"1", "2", "2c", "3", "4"}
SecLevels == {"NoAuthNoPriv", "AuthNoPriv", "AuthPriv", "authPriv"}
AuthNames == {"MD5", "SHA", "md5"}
PrivNames == {"DES", "AES", "des"}
Timeouts == {0, 2}
RetriesSet == {0}

Profile ==
    [Host : Hosts, Community : Communities, Version : Versions,
     Port : Ports, Timeout : Timeouts, Retries : RetriesSet,
     SecLevel : SecLevels, AuthUser : Strs, AuthPass : Strs,
     AuthProto : AuthNames, PrivProto : PrivNames, PrivPass : Strs]

\* ---------------------------------------------------------------- helpers
Nil == <<>>
Ptr(x) == <<x>>

\* uint16(p.Port): conversion of an int to the 16-bit port field
uint16(n) == n % 65536

\* len(s) < 1
missing(s) == Len(s) < 1

\* v, ok = table[name]
lookup(table, name) ==
    IF name \in DOMAIN table
    THEN [v |-> table[name], ok |-> TRUE]
    ELSE [v |-> 0, ok |-> FALSE]

\* the error of v3auth() is never tested
failedNever(e) == FALSE

\* err != nil
failed(e) == e /= NilErr

UsmSecurityParameters(user, ap, apass, pp, ppass) ==
    [UserName |-> user, AuthenticationProtocol |-> ap,
     AuthenticationPassphrase |-> apass, PrivacyProtocol |-> pp,
     PrivacyPassphrase |-> ppass]

VARIABLES pc, profile, Debug, p, ok, aProto, pProto, msgFlags, client,
          operand, authErr, usmParams, err, logs, ran, connectCalls,
          retClient, retErr

vars == <<pc, profile, Debug, p, ok, aProto, pProto, msgFlags, client,
          operand, authErr, usmParams, err, logs, ran, connectCalls,
          retClient, retErr>>

ZeroProfile ==
    [Host |-> "h1", Community |-> "", Version |-> "1", Port |-> 0,
     Timeout |-> 0, Retries |-> 0, SecLevel |-> "NoAuthNoPriv",
     AuthUser |-> <<>>, AuthPass |-> <<>>, AuthProto |-> "MD5",
     PrivProto |-> "DES", PrivPass |-> <<>>]

Init ==
    /\ pc = "idle"
    /\ profile = ZeroProfile
    /\ Debug \in BOOLEAN
    /\ p = ZeroProfile
    /\ ok = FALSE
    /\ aProto = 0
    /\ pProto = 0
    /\ msgFlags = 0
    /\ client = Nil
    /\ operand = Nil
    /\ authErr = NilErr
    /\ usmParams = Nil
    /\ err = NilErr
    /\ logs = <<>>
    /\ ran = {}
    /\ connectCalls = 0
    /\ retClient = Nil
    /\ retErr = NilErr

\* NewClient(p): the caller passes a Profile by value; the locals are zero
Call ==
    /\ pc = "idle"
    /\ \E q \in Profile : profile' = q /\ p' = q
    /\ pc' = "port"
    /\ UNCHANGED <<Debug, ok, aProto, pProto, msgFlags, client, operand,
                   authErr, usmParams, err, logs, ran, connectCalls,
                   retClient, retErr>>

\* lines 115-124: port defaulting and construction of the client
DefaultPort ==
    /\ pc = "port"
    /\ p' = [p EXCEPT !.Port = IF p.Port = 0 THEN defaultPort ELSE @]
    /\ client' = Ptr([Target |-> p.Host,
                      Port |-> uint16(p'.Port),
                      Timeout |-> p.Timeout * Second,
                      Retries |-> p.Retries,
                      Version |-> 0,
                      Community |-> "",
                      MsgFlags |-> 0,
                      SecurityModel |-> 0,
                      SecurityParameters |-> Nil,
                      Logger |-> FALSE])
    /\ pc' = "switch"
    /\ UNCHANGED <<profile, Debug, ok, aProto, pProto, msgFlags, operand,
                   authErr, usmParams, err, logs, ran, connectCalls,
                   retClient, retErr>>

\* the cases of switch p.Version
case1(v) == v = "1"
case2Only2c(v) == v = "2c"
case2(v) == v \in {"2", "2c"}
case3Otherwise(v) == v \notin {"1", "2", "2c"}
case3(v) == v = "3"

\* case "1"
Version1Case ==
    /\ pc = "switch"
    /\ case1(p.Version)
    /\ client' = Ptr([client[1] EXCEPT !.Version = Version1,
                                       !.Community = p.Community])
    /\ pc' = "connect"
    /\ UNCHANGED <<profile, Debug, p, ok, aProto, pProto, msgFlags, operand,
                   authErr, usmParams, err, logs, ran, connectCalls,
                   retClient, retErr>>

\* case "2", "2c"
Version2Case ==
    /\ pc = "switch"
    /\ ~case1(p.Version)
    /\ case2(p.Version)
    /\ client' = Ptr([client[1] EXCEPT !.Version = Version2c,
                                       !.Community = p.Community])
    /\ pc' = "connect"
    /\ UNCHANGED <<profile, Debug, p, ok, aProto, pProto, msgFlags, operand,
                   authErr, usmParams, err, logs, ran, connectCalls,
                   retClient, retErr>>

\* case "3": the call of v3auth()
Version3Case ==
    /\ pc = "switch"
    /\ ~case1(p.Version)
    /\ ~case2(p.Version)
    /\ case3(p.Version)
    /\ pc' = "v3auth"
    /\ UNCHANGED <<profile, Debug, p, ok, aProto, pProto, msgFlags, client,
                   operand, authErr, usmParams, err, logs, ran, connectCalls,
                   retClient, retErr>>

\* default: return nil, ErrVersion
VersionDefault ==
    /\ pc = "switch"
    /\ ~case1(p.Version)
    /\ ~case2(p.Version)
    /\ ~case3(p.Version)
    /\ retClient' = Nil
    /\ retErr' = ErrVersion
    /\ pc' = "done"
    /\ UNCHANGED <<profile, Debug, p, ok, aProto, pProto, msgFlags, client,
                   operand, authErr, usmParams, err, logs, ran, connectCalls>>

logLine(text, host) == [text |-> text, host |-> host]

\* v3auth, lines 68-71: the username check
UserCheck ==
    /\ pc = "v3auth"
    /\ ran' = ran \cup {"user"}
    /\ IF missing(p.AuthUser)
       THEN /\ logs' = Append(logs, logLine("username not found", p.Host))
            /\ usmParams' = Nil
            /\ err' = ErrBadUser
            /\ pc' = "v3ret"
       ELSE /\ pc' = "level"
            /\ UNCHANGED <<logs, usmParams, err>>
    /\ UNCHANGED <<profile, Debug, p, ok, aProto, pProto, msgFlags, client,
                   operand, authErr, connectCalls, retClient, retErr>>

\* the cases of switch p.SecLevel
caseNoAuthNoPriv(l) == l = "NoAuthNoPriv"
caseAuthNoPriv(l) == l = "AuthNoPriv"
caseAuthPrivAnyCase(l) == l \in {"AuthPriv", "authPriv"}
caseAuthPriv(l) == l = "AuthPriv"

\* the literal keeps the Profile's auth passphrase
noAuthLiteralKeepsPass(prof) ==
    UsmSecurityParameters(prof.AuthUser, NoAuth, prof.AuthPass, NoPriv, <<>>)

\* the struct literal of lines 76-80
noAuthLiteral(prof) ==
    UsmSecurityParameters(prof.AuthUser, NoAuth, <<>>, NoPriv, <<>>)

\* case "NoAuthNoPriv", lines 74-80
LevelNoAuthNoPriv ==
    /\ pc = "level"
    /\ caseNoAuthNoPriv(p.SecLevel)
    /\ ran' = ran \cup {"level"}
    /\ msgFlags' = NoAuthNoPriv
    /\ usmParams' = Ptr(noAuthLiteral(p))
    /\ err' = NilErr
    /\ pc' = "v3ret"
    /\ UNCHANGED <<profile, Debug, p, ok, aProto, pProto, client, operand,
                   authErr, logs, connectCalls, retClient, retErr>>

\* case "AuthNoPriv", lines 81-82, up to the return statement
LevelAuthNoPriv ==
    /\ pc = "level"
    /\ ~caseNoAuthNoPriv(p.SecLevel)
    /\ caseAuthNoPriv(p.SecLevel)
    /\ ran' = ran \cup {"level"}
    /\ msgFlags' = AuthNoPriv
    /\ pc' = "ret"
    /\ UNCHANGED <<profile, Debug, p, ok, aProto, pProto, client, operand,
                   authErr, usmParams, err, logs, connectCalls, retClient,
                   retErr>>

\* case "AuthPriv", lines 89-94: the flags and the privacy passphrase check
LevelAuthPriv ==
    /\ pc = "level"
    /\ ~caseNoAuthNoPriv(p.SecLevel)
    /\ ~caseAuthNoPriv(p.SecLevel)
    /\ caseAuthPriv(p.SecLevel)
    /\ ran' = ran \cup {"level", "privpass"}
    /\ msgFlags' = AuthPriv
    /\ IF missing(p.PrivPass)
       THEN /\ logs' = Append(logs, logLine("privPass not found", p.Host))
            /\ usmParams' = Nil
            /\ err' = ErrPrivacy
            /\ pc' = "v3ret"
       ELSE /\ pc' = "privproto"
            /\ UNCHANGED <<logs, usmParams, err>>
    /\ UNCHANGED <<profile, Debug, p, ok, aProto, pProto, client, operand,
                   authErr, connectCalls, retClient, retErr>>

\* an unknown privacy algorithm name falls back to no-privacy
privacyLookupFallback(name) ==
    IF name \in DOMAIN privacy THEN lookup(privacy, name)
    ELSE [v |-> NoPriv, ok |-> TRUE]

\* privacy[p.PrivProto]
privacyLookup(name) == lookup(privacy, name)

\* case "AuthPriv", lines 96-99: the privacy algorithm lookup
PrivProtoLookup ==
    /\ pc = "privproto"
    /\ ran' = ran \cup {"privproto"}
    /\ pProto' = privacyLookup(p.PrivProto).v
    /\ ok' = privacyLookup(p.PrivProto).ok
    /\ IF ~ok'
       THEN /\ logs' = Append(logs, logLine("Priv Protocol", p.Host))
            /\ usmParams' = Nil
            /\ err' = ErrBadPassword
            /\ pc' = "v3ret"
       ELSE /\ pc' = "ret"
            /\ UNCHANGED <<logs, usmParams, err>>
    /\ UNCHANGED <<profile, Debug, p, aProto, msgFlags, client, operand,
                   authErr, connectCalls, retClient, retErr>>

\* default, lines 109-111
LevelDefault ==
    /\ pc = "level"
    /\ ~caseNoAuthNoPriv(p.SecLevel)
    /\ ~caseAuthNoPriv(p.SecLevel)
    /\ ~caseAuthPriv(p.SecLevel)
    /\ ran' = ran \cup {"level"}
    /\ logs' = Append(logs, logLine("invalid security level", p.Host))
    /\ usmParams' = Nil
    /\ err' = ErrLevel
    /\ pc' = "v3ret"
    /\ UNCHANGED <<profile, Debug, p, ok, aProto, pProto, msgFlags, client,
                   operand, authErr, connectCalls, retClient, retErr>>

(***************************************************************************)
(* return &gosnmp.UsmSecurityParameters{... aProto ...}, authCheck()       *)
(* Go fixes the order of the function calls of a statement but not the     *)
(* order between the read of the variable aProto and the call authCheck()  *)
(* that assigns it: the operand is read either before the call or after.   *)
(***************************************************************************)
ReadOperandFirst ==
    /\ pc = "ret"
    /\ operand' = Ptr(aProto)
    /\ pc' = "authCheck"
    /\ UNCHANGED <<profile, Debug, p, ok, aProto, pProto, msgFlags, client,
                   authErr, usmParams, err, logs, ran, connectCalls,
                   retClient, retErr>>

CallFirst ==
    /\ pc = "ret"
    /\ operand' = Nil
    /\ pc' = "authCheck"
    /\ UNCHANGED <<profile, Debug, p, ok, aProto, pProto, msgFlags, client,
                   authErr, usmParams, err, logs, ran, connectCalls,
                   retClient, retErr>>

\* an unknown auth algorithm name falls back to no-auth
authLookupFallback(name) ==
    IF name \in DOMAIN authProto THEN lookup(authProto, name)
    ELSE [v |-> NoAuth, ok |-> TRUE]

\* authProto[p.AuthProto]
authLookup(name) == lookup(authProto, name)

\* the closure authCheck, lines 55-65
AuthCheck ==
    /\ pc = "authCheck"
    /\ IF missing(p.AuthPass)
       THEN /\ ran' = ran \cup {"authpass"}
            /\ logs' = Append(logs, logLine("no SNMPv3 password", p.Host))
            /\ authErr' = ErrBadPassword
            /\ UNCHANGED <<aProto, ok>>
       ELSE /\ ran' = ran \cup {"authpass", "authproto"}
            /\ aProto' = authLookup(p.AuthProto).v
            /\ ok' = authLookup(p.AuthProto).ok
            /\ IF ~ok'
               THEN /\ logs' = Append(logs, logLine("Auth Protocol", p.Host))
                    /\ authErr' = ErrBadProtocol
               ELSE /\ authErr' = NilErr
                    /\ UNCHANGED logs
    /\ pc' = "lit"
    /\ UNCHANGED <<profile, Debug, p, pProto, msgFlags, client, operand,
                   usmParams, err, connectCalls, retClient, retErr>>

\* the struct literals of lines 83-88 and 101-107, a the value read for
\* the operand aProto
authLiteral(prof, a, pp) ==
    IF caseAuthNoPriv(prof.SecLevel)
    THEN UsmSecurityParameters(prof.AuthUser, a, prof.AuthPass, NoPriv, <<>>)
    ELSE UsmSecurityParameters(prof.AuthUser, a, prof.AuthPass, pp,
                               prof.PrivPass)

\* completion of the return statements of lines 83-88 and 101-107
V3AuthReturn ==
    /\ pc = "lit"
    /\ usmParams' = Ptr(authLiteral(p, IF operand = Nil THEN aProto
                                       ELSE operand[1], pProto))
    /\ err' = authErr
    /\ pc' = "v3ret"
    /\ UNCHANGED <<profile, Debug, p, ok, aProto, pProto, msgFlags, client,
                   operand, authErr, logs, ran, connectCalls, retClient,
                   retErr>>

\* case "3", lines 134-141: the result of v3auth()
V3Result ==
    /\ pc = "v3ret"
    /\ IF failed(err)
       THEN /\ retClient' = Nil
            /\ retErr' = err
            /\ pc' = "done"
            /\ UNCHANGED client
       ELSE /\ client' = Ptr([client[1] EXCEPT
                                !.MsgFlags = msgFlags,
                                !.SecurityModel = UserSecurityModel,
                                !.SecurityParameters = usmParams,
                                !.Version = Version3])
            /\ pc' = "connect"
            /\ UNCHANGED <<retClient, retErr>>
    /\ UNCHANGED <<profile, Debug, p, ok, aProto, pProto, msgFlags, operand,
                   authErr, usmParams, err, logs, ran, connectCalls>>

\* lines 146-150: the debug logger and return client, client.Connect();
\* the engine's Connect succeeds or fails with a transport error
Connect ==
    /\ pc = "connect"
    /\ client' = Ptr([client[1] EXCEPT !.Logger = Debug])
    /\ connectCalls' = connectCalls + 1
    /\ retClient' = client'
    /\ retErr' \in {NilErr, ErrConnect}
    /\ pc' = "done"
    /\ UNCHANGED <<profile, Debug, p, ok, aProto, pProto, msgFlags, operand,
                   authErr, usmParams, err, logs, ran>>

Next ==
    \/ Call
    \/ DefaultPort
    \/ Version1Case
    \/ Version2Case
    \/ Version3Case
    \/ VersionDefault
    \/ UserCheck
    \/ LevelNoAuthNoPriv
    \/ LevelAuthNoPriv
    \/ LevelAuthPriv
    \/ PrivProtoLookup
    \/ LevelDefault
    \/ ReadOperandFirst
    \/ CallFirst
    \/ AuthCheck
    \/ V3AuthReturn
    \/ V3Result
    \/ Connect

Spec == Init /\ [][Next]_vars

\* ------------------------------------------------------------ properties
Done == pc = "done"
Sentinels ==
    {ErrBadUser, ErrBadPassword, ErrBadProtocol, ErrLevel, ErrPrivacy,
     ErrVersion}
KnownVersions == {"1", "2", "2c", "3"}
KnownLevels == {"NoAuthNoPriv", "AuthNoPriv", "AuthPriv"}
IsV3 == profile.Version = "3"
\* the call went through validation; what is left is the engine's outcome
Validated == retErr \in {NilErr, ErrConnect} /\ retClient /= Nil

\* C1 as stated: for version "3" and level AuthPriv the first failing check
\* in the order username, auth passphrase, auth algorithm, privacy
\* passphrase, privacy algorithm decides the error.
C1_AuthFirstOrder ==
    (Done /\ IsV3 /\ profile.SecLevel = "AuthPriv") =>
        IF Len(profile.AuthUser) = 0 THEN retErr = ErrBadUser
        ELSE IF Len(profile.AuthPass) = 0 THEN retErr = ErrBadPassword
        ELSE IF profile.AuthProto \notin DOMAIN authProto
             THEN retErr = ErrBadProtocol
        ELSE IF Len(profile.PrivPass) = 0 THEN retErr = ErrPrivacy
        ELSE IF profile.PrivProto \notin DOMAIN privacy
             THEN retErr = ErrBadPassword
        ELSE Validated /\ retClient[1].MsgFlags = AuthPriv

\* C1 amended: for version "3" and level AuthPriv the first failing check in
\* the order username (ErrBadUser), privacy passphrase (ErrPrivacy), privacy
\* algorithm (ErrBadPassword), auth passphrase (ErrBadPassword), auth
\* algorithm (ErrBadProtocol) decides the error; otherwise validation
\* succeeds with message-flags AuthPriv.
C1_PrivFirstOrder ==
    (Done /\ IsV3 /\ profile.SecLevel = "AuthPriv") =>
        IF Len(profile.AuthUser) = 0 THEN retErr = ErrBadUser
        ELSE IF Len(profile.PrivPass) = 0 THEN retErr = ErrPrivacy
        ELSE IF profile.PrivProto \notin DOMAIN privacy
             THEN retErr = ErrBadPassword
        ELSE IF Len(profile.AuthPass) = 0 THEN retErr = ErrBadPassword
        ELSE IF profile.AuthProto \notin DOMAIN authProto
             THEN retErr = ErrBadProtocol
        ELSE Validated /\ retClient[1].MsgFlags = AuthPriv

C1_Witness ==
    /\ Done /\ IsV3 /\ profile.SecLevel = "AuthPriv"
    /\ Len(profile.AuthUser) > 0
    /\ Len(profile.PrivPass) > 0
    /\ profile.PrivProto \notin DOMAIN privacy
    /\ Len(profile.AuthPass) = 0
    /\ retErr = ErrBadPassword
    /\ "authpass" \notin ran

\* C2 as stated: for version "3" an unrecognized security level gives
\* ErrLevel whatever the other fields, the username included.
C2_LevelShortCircuits ==
    (Done /\ IsV3 /\ profile.SecLevel \notin KnownLevels) =>
        retErr = ErrLevel

\* C2 amended: for version "3" and an unrecognized security level, an empty
\* username gives ErrBadUser and a non-empty username gives ErrLevel,
\* whatever the passphrases and algorithm names, none of which is checked.
C2_LevelAfterUser ==
    (Done /\ IsV3 /\ profile.SecLevel \notin KnownLevels) =>
        /\ retErr = (IF Len(profile.AuthUser) = 0 THEN ErrBadUser
                     ELSE ErrLevel)
        /\ retClient = Nil
        /\ ran \subseteq {"user", "level"}

C2_Witness ==
    /\ Done /\ IsV3 /\ profile.SecLevel \notin KnownLevels
    /\ Len(profile.AuthUser) > 0
    /\ Len(profile.AuthPass) = 0
    /\ profile.AuthProto \notin DOMAIN authProto
    /\ retErr = ErrLevel

\* C3: for version "3" and level AuthNoPriv: empty username -> ErrBadUser,
\* else empty auth passphrase -> ErrBadPassword, else unknown auth algorithm
\* -> ErrBadProtocol, else success with message-flags AuthNoPriv; the result
\* is a function of the auth fields only and no privacy check is executed.
C3_AuthNoPriv ==
    (Done /\ IsV3 /\ profile.SecLevel = "AuthNoPriv") =>
        /\ IF Len(profile.AuthUser) = 0 THEN retErr = ErrBadUser
           ELSE IF Len(profile.AuthPass) = 0 THEN retErr = ErrBadPassword
           ELSE IF profile.AuthProto \notin DOMAIN authProto
                THEN retErr = ErrBadProtocol
           ELSE Validated /\ retClient[1].MsgFlags = AuthNoPriv
        /\ ran \cap {"privpass", "privproto"} = {}

C3_Witness ==
    /\ Done /\ IsV3 /\ profile.SecLevel = "AuthNoPriv"
    /\ Len(profile.AuthUser) > 0
    /\ Len(profile.AuthPass) > 0
    /\ profile.AuthProto \notin DOMAIN authProto
    /\ Len(profile.PrivPass) = 0
    /\ profile.PrivProto \notin DOMAIN privacy
    /\ retErr = ErrBadProtocol

\* C4: for version "3", level NoAuthNoPriv and a non-empty username,
\* validation succeeds with message-flags NoAuthNoPriv and the parameters
\* (username, no-auth, no-privacy, both passphrases empty), whatever the
\* passphrases and algorithm names of the Profile.
C4_NoAuthNoPriv ==
    (Done /\ IsV3 /\ profile.SecLevel = "NoAuthNoPriv"
          /\ Len(profile.AuthUser) > 0) =>
        /\ Validated
        /\ retClient[1].MsgFlags = NoAuthNoPriv
        /\ retClient[1].SecurityParameters =
               <<[UserName |-> profile.AuthUser,
                  AuthenticationProtocol |-> NoAuth,
                  AuthenticationPassphrase |-> <<>>,
                  PrivacyProtocol |-> NoPriv,
                  PrivacyPassphrase |-> <<>>]>>
        /\ logs = <<>>

C4_Witness ==
    /\ Done /\ IsV3 /\ profile.SecLevel = "NoAuthNoPriv"
    /\ Len(profile.AuthUser) > 0
    /\ Len(profile.AuthPass) > 0
    /\ profile.AuthProto \notin DOMAIN authProto
    /\ profile.PrivProto \notin DOMAIN privacy
    /\ retErr = NilErr

\* C5: a version tag other than "1", "2", "2c", "3" gives ErrVersion and no
\* v3 validation step (username, level, passphrase, algorithm) is executed.
C5_UnknownVersion ==
    (profile.Version \notin KnownVersions) =>
        /\ ran = {}
        /\ Done => (retErr = ErrVersion /\ retClient = Nil)

C5_Witness ==
    /\ Done
    /\ profile.Version \notin KnownVersions
    /\ Len(profile.AuthUser) = 0
    /\ profile.SecLevel \notin KnownLevels
    /\ retErr = ErrVersion

\* C6: for version "1", "2" or "2c" the client handed to the engine has the
\* Profile's community unchanged, no SecurityParameters, no security model
\* and no message-flags, and "2" and "2c" give the same protocol version;
\* for version "3" a validated client carries non-nil SecurityParameters and
\* the user security model.
C6_ClientShape ==
    /\ (Done /\ profile.Version \in {"1", "2", "2c"}) =>
          /\ Validated
          /\ connectCalls = 1
          /\ retClient[1].Community = profile.Community
          /\ retClient[1].SecurityParameters = Nil
          /\ retClient[1].SecurityModel = 0
          /\ retClient[1].MsgFlags = 0
          /\ retClient[1].Version =
                 (IF profile.Version = "1" THEN Version1 ELSE Version2c)
    /\ (Done /\ IsV3 /\ retErr \notin Sentinels) =>
          /\ Validated
          /\ connectCalls = 1
          /\ retClient[1].SecurityParameters /= Nil
          /\ retClient[1].SecurityModel = UserSecurityModel
          /\ retClient[1].Version = Version3

C6_Witness ==
    /\ Done
    /\ profile.Version = "2"
    /\ profile.Community = ""
    /\ retClient /= Nil
    /\ retClient[1].Version = Version2c

\* C7: a Profile port of 0 gives client port 161 and every non-zero Profile
\* port gives exactly that port in the client.
C7_PortPreserved ==
    (client /= Nil) =>
        client[1].Port =
            (IF profile.Port = 0 THEN defaultPort ELSE profile.Port)

\* a Profile meets every check of its version and security level
Valid(q) ==
    /\ q.Version \in KnownVersions
    /\ (q.Version = "3") =>
          /\ Len(q.AuthUser) > 0
          /\ q.SecLevel \in KnownLevels
          /\ (q.SecLevel /= "NoAuthNoPriv") =>
                (Len(q.AuthPass) > 0 /\ q.AuthProto \in DOMAIN authProto)
          /\ (q.SecLevel = "AuthPriv") =>
                (Len(q.PrivPass) > 0 /\ q.PrivProto \in DOMAIN privacy)

\* C8: Connect is invoked at most once and only for a Profile that passed
\* version dispatch and all v3 validation; when a validation sentinel is
\* returned, Connect was never invoked and the returned client is nil.
C8_ConnectAfterValidation ==
    /\ connectCalls <= 1
    /\ (connectCalls > 0) => (Done /\ Valid(profile) /\ err = NilErr)
    /\ (Done /\ retErr \in Sentinels) =>
          (connectCalls = 0 /\ retClient = Nil)

C8_Witness ==
    /\ Done
    /\ retErr = ErrBadProtocol
    /\ usmParams /= Nil
    /\ connectCalls = 0
    /\ retClient = Nil

C10_RejectionLogged ==
    Done =>
        IF retErr \in Sentinels
        THEN Len(logs) = 1 /\ logs[1].host = profile.Host
        ELSE logs = <<>>
====
